---- MODULE Spec2Model ----
(***************************************************************************)
(* A model of the audio pipeline of voicepages-server:                     *)
(*   pipeline/audio_generator.py  AudioGenerator.generate,                 *)
(*                                generate_simple, _clean_wav,             *)
(*                                concatenate_audio,                       *)
(*                                _detect_dialogue_with_speakers           *)
(*   pipeline/voice_assigner.py   VoiceAssigner.assign_voices              *)
(*   pipeline/character_detector.py  CharacterDetector.detect              *)
(*   main.py                      upload_book, generate_tts,               *)
(*                                update_character_voice                   *)
(* Texts are sequences of character classes, WAV buffers are sequences of  *)
(* bytes (0..255), and a coroutine is a process with a position (pc).      *)
(***************************************************************************)
EXTENDS Integers, Sequences, FiniteSets, TLC

(***************************************************************************)
(* Bounds of the model.                                                    *)
(***************************************************************************)
MaxTextLen == 4       \* longest text of a direct generate_simple request
MaxSegments == 3      \* longest segment list handed to the generate loop
MaxChunkSize == 4     \* settings.max_chunk_size ranges over 1..MaxChunkSize
MaxChunks == 3        \* most chunks after the RIFF header of an input buffer
MaxData == 3          \* longest plain data payload of an input buffer, in bytes
MaxCut == 2           \* most bytes cut off the end of an input buffer
MaxClips == 3         \* longest list of buffers given to concatenate_audio
MaxParts == 4         \* most parts of a text given to the segmenter
MaxCharacters == 2    \* most characters a language model or the heuristics name

(***************************************************************************)
(* Texts.  A character is one of five classes: a printable character, a    *)
(* space, another whitespace character, NUL and U+FFFD.                    *)
(***************************************************************************)
Chars == {"a", "sp", "tab", "nul", "fffd"}

RECURSIVE TextsOfLen(_)
TextsOfLen(n) ==
  IF n = 0 THEN {<<>>}
  ELSE {<<c>> \o t : c \in Chars, t \in TextsOfLen(n - 1)}

Texts == UNION {TextsOfLen(n) : n \in 0..MaxTextLen}

\* str.isspace of one character: NUL and U+FFFD are not whitespace.
IsSpace(c) == c \in {"sp", "tab"}

\* text[:n]
Truncate(t, n) == IF Len(t) > n THEN SubSeq(t, 1, n) ELSE t

\* text.replace(NUL, '').replace(U+FFFD, '')
RemoveJunk(t) == SelectSeq(t, LAMBDA c : c \notin {"nul", "fffd"})

\* length of the leading run of non-whitespace characters of t
RECURSIVE WordLen(_)
WordLen(t) ==
  IF t = <<>> \/ IsSpace(Head(t)) THEN 0 ELSE 1 + WordLen(Tail(t))

\* text.split(): the maximal runs of non-whitespace characters
RECURSIVE Split(_)
Split(t) ==
  IF t = <<>> THEN <<>>
  ELSE IF IsSpace(Head(t)) THEN Split(Tail(t))
  ELSE LET n == WordLen(t)
       IN  <<SubSeq(t, 1, n)>> \o Split(SubSeq(t, n + 1, Len(t)))

\* ' '.join(words)
RECURSIVE JoinSpace(_)
JoinSpace(ws) ==
  IF ws = <<>> THEN <<>>
  ELSE IF Len(ws) = 1 THEN ws[1]
  ELSE ws[1] \o <<"sp">> \o JoinSpace(Tail(ws))

\* text.strip()
RECURSIVE LStrip(_)
LStrip(t) == IF t # <<>> /\ IsSpace(Head(t)) THEN LStrip(Tail(t)) ELSE t

RECURSIVE RStrip(_)
RStrip(t) ==
  IF t # <<>> /\ IsSpace(t[Len(t)]) THEN RStrip(SubSeq(t, 1, Len(t) - 1)) ELSE t

Strip(t) == RStrip(LStrip(t))

\* generate_simple, lines 188-192: truncate, then strip NUL/U+FFFD, then
\* collapse whitespace.
CleanTextNoTruncate(t, maxlen) == JoinSpace(Split(RemoveJunk(t)))

CleanText(t, maxlen) == JoinSpace(Split(RemoveJunk(Truncate(t, maxlen))))

(***************************************************************************)
(* WAV buffers: sequences of bytes.  Python offsets are 0-based.           *)
(***************************************************************************)
Min(a, b) == IF a < b THEN a ELSE b

\* w[a:b] of Python, for 0 <= a
PySlice(w, a, b) ==
  IF a >= Min(b, Len(w)) THEN <<>> ELSE SubSeq(w, a + 1, Min(b, Len(w)))

\* the four-character codes
RIFF == <<82, 73, 70, 70>>
WAVE == <<87, 65, 86, 69>>
FMT  == <<102, 109, 116, 32>>
DATA == <<100, 97, 116, 97>>
FLLR == <<70, 76, 76, 82>>

\* struct.pack('<I', n) and struct.pack('<H', n)
PackU32(n) ==
  <<n % 256, (n \div 256) % 256, (n \div 65536) % 256, (n \div 16777216) % 256>>

PackU16(n) == <<n % 256, (n \div 256) % 256>>

\* n bytes of value b
RECURSIVE Bytes(_, _)
Bytes(n, b) == IF n = 0 THEN <<>> ELSE <<b>> \o Bytes(n - 1, b)

\* struct.unpack('<I', b)[0] of exactly four bytes
UnpackU32(b) == b[1] + 256 * b[2] + 65536 * b[3] + 16777216 * b[4]

(***************************************************************************)
(* AudioGenerator._clean_wav                                               *)
(***************************************************************************)
\* fmt_chunk = None / data_chunk = None
NoChunk == <<-1>>

\* the while condition of the chunk walk, line 287
WalkContinuesOffByEight(w, pos) == pos < Len(w)

WalkContinues(w, pos) == pos < Len(w) - 8

\* pos after one chunk, lines 298-301: chunks are word-aligned
NextPosNoAlign(pos, chunk_size) == pos + 8 + chunk_size

NextPos(pos, chunk_size) ==
  pos + 8 + chunk_size + (IF chunk_size % 2 = 1 THEN 1 ELSE 0)

\* The chunk walk, lines 287-301.  steps counts the iterations and raised
\* tells whether struct.unpack was given fewer than four bytes.
RECURSIVE WalkChunks(_, _, _, _, _)
WalkChunks(w, pos, fmt_chunk, data_chunk, steps) ==
  IF ~WalkContinues(w, pos)
  THEN [fmt |-> fmt_chunk, data |-> data_chunk, raised |-> FALSE,
        steps |-> steps, pos |-> pos]
  ELSE LET chunk_id == PySlice(w, pos, pos + 4)
           size_bytes == PySlice(w, pos + 4, pos + 8)
       IN  IF Len(size_bytes) # 4
           THEN [fmt |-> fmt_chunk, data |-> data_chunk, raised |-> TRUE,
                 steps |-> steps, pos |-> pos]
           ELSE LET chunk_size == UnpackU32(size_bytes)
                    chunk_data == PySlice(w, pos + 8, pos + 8 + chunk_size)
                IN  WalkChunks(w, NextPos(pos, chunk_size),
                               IF chunk_id = FMT THEN chunk_data ELSE fmt_chunk,
                               IF chunk_id = DATA THEN chunk_data ELSE data_chunk,
                               steps + 1)

\* lines 279: the RIFF/WAVE magic
HasMagic(w) == PySlice(w, 0, 4) = RIFF /\ PySlice(w, 8, 12) = WAVE

\* a rebuild that takes the fmt chunk to be 16 bytes long when it computes
\* the RIFF size
BuildCleanCanonicalRiffSize(fmt_chunk, data_chunk) ==
  RIFF \o PackU32(36 + Len(data_chunk)) \o WAVE
       \o FMT \o PackU32(Len(fmt_chunk)) \o fmt_chunk
       \o DATA \o PackU32(Len(data_chunk)) \o data_chunk

\* lines 307-324: RIFF header + fmt + data only
BuildClean(fmt_chunk, data_chunk) ==
  RIFF \o PackU32(4 + 8 + Len(fmt_chunk) + 8 + Len(data_chunk)) \o WAVE
       \o FMT \o PackU32(Len(fmt_chunk)) \o fmt_chunk
       \o DATA \o PackU32(Len(data_chunk)) \o data_chunk

\* what _clean_wav does when a chunk is missing, lines 303-305
MissingChunkResultRebuilt(w, r) ==
  BuildClean(IF r.fmt = NoChunk THEN <<>> ELSE r.fmt,
             IF r.data = NoChunk THEN <<>> ELSE r.data)

MissingChunkResult(w, r) == w

\* _clean_wav, lines 264-326: [raised, value]
CleanWavResult(w) ==
  IF Len(w) < 44 THEN [raised |-> FALSE, value |-> w]
  ELSE IF ~HasMagic(w) THEN [raised |-> FALSE, value |-> w]
  ELSE LET r == WalkChunks(w, 12, NoChunk, NoChunk, 0)
       IN  IF r.raised THEN [raised |-> TRUE, value |-> <<>>]
           ELSE IF r.fmt = NoChunk \/ r.data = NoChunk
           THEN [raised |-> FALSE, value |-> MissingChunkResult(w, r)]
           ELSE [raised |-> FALSE, value |-> BuildClean(r.fmt, r.data)]

CleanWav(w) == CleanWavResult(w).value

(***************************************************************************)
(* AudioGenerator.concatenate_audio                                        *)
(***************************************************************************)
\* pause_ms: int = 300
DefaultPauseMs == 300

RECURSIVE FlattenArrays(_)
FlattenArrays(arrays) ==
  IF arrays = <<>> THEN <<>> ELSE Head(arrays).bytes \o FlattenArrays(Tail(arrays))

\* the 44-byte header written at lines 385-396
PcmHeader(sample_rate, num_samples) ==
  RIFF \o PackU32(36 + num_samples * 2) \o WAVE
       \o FMT \o PackU32(16)
       \o PackU16(1) \o PackU16(1)
       \o PackU32(sample_rate) \o PackU32(sample_rate * 2)
       \o PackU16(2) \o PackU16(16)
       \o DATA \o PackU32(num_samples * 2)

PauseFollowsAlways(i, n) == TRUE

\* whether a pause follows the array of segment i (0-based) of n, line 376
PauseFollows(i, n) == i < n - 1

\* The loop of lines 372-377 from segment i (1-based) on: the arrays list,
\* each array with the segment it came from, and whether np.frombuffer
\* raised (a byte count that is not a multiple of the int16 size).
RECURSIVE CollectArrays(_, _, _, _)
CollectArrays(segs, i, pause, arrays) ==
  IF i > Len(segs) THEN [raised |-> FALSE, arrays |-> arrays]
  ELSE IF Len(segs[i]) > 44
  THEN LET body == PySlice(segs[i], 44, Len(segs[i]))
       IN  IF Len(body) % 2 # 0 THEN [raised |-> TRUE, arrays |-> arrays]
           ELSE CollectArrays(segs, i + 1, pause,
                  Append(arrays, [kind |-> "audio", seg |-> i, bytes |-> body])
                  \o (IF PauseFollows(i - 1, Len(segs))
                      THEN <<[kind |-> "pause", seg |-> i, bytes |-> pause]>>
                      ELSE <<>>))
  ELSE CollectArrays(segs, i + 1, pause, arrays)

\* lines 366-398: two or more segments
ConcatGeneral(segs, pause_ms) ==
  LET header == PySlice(segs[1], 0, 44)
      rate_bytes == PySlice(header, 24, 28)
  IN  IF Len(rate_bytes) # 4
      THEN [raised |-> TRUE, value |-> <<>>, arrays |-> <<>>]
      ELSE LET sample_rate == UnpackU32(rate_bytes)
               pause_samples == (sample_rate * pause_ms) \div 1000
               pause == Bytes(2 * pause_samples, 0)
               c == CollectArrays(segs, 1, pause, <<>>)
           IN  IF c.raised
               THEN [raised |-> TRUE, value |-> <<>>, arrays |-> c.arrays]
               ELSE IF c.arrays = <<>>
               THEN [raised |-> FALSE, value |-> segs[1], arrays |-> <<>>]
               ELSE LET combined == FlattenArrays(c.arrays)
                    IN  [raised |-> FALSE,
                         value |-> PcmHeader(sample_rate, Len(combined) \div 2)
                                   \o combined,
                         arrays |-> c.arrays]

\* lines 363-364: exactly one segment
ConcatSingleReencoded(segs, pause_ms) == ConcatGeneral(segs, pause_ms)

ConcatSingle(segs, pause_ms) ==
  [raised |-> FALSE, value |-> segs[1], arrays |-> <<>>]

\* concatenate_audio, lines 359-398: [raised, value, arrays]
ConcatenateAudio(segs, pause_ms) ==
  IF segs = <<>> THEN [raised |-> FALSE, value |-> <<>>, arrays |-> <<>>]
  ELSE IF Len(segs) = 1 THEN ConcatSingle(segs, pause_ms)
  ELSE ConcatGeneral(segs, pause_ms)

\* a mono buffer of 32-bit IEEE float samples (format tag 3), the layout of
\* the canonical header with the fields of another encoding
FloatWav(rate, body) ==
  RIFF \o PackU32(36 + Len(body)) \o WAVE
       \o FMT \o PackU32(16)
       \o PackU16(3) \o PackU16(1)
       \o PackU32(rate) \o PackU32(rate * 4)
       \o PackU16(4) \o PackU16(32)
       \o DATA \o PackU32(Len(body))
       \o body

\* a canonical 16-bit mono PCM buffer
WavOf(rate, body) == PcmHeader(rate, Len(body) \div 2) \o body

\* The buffers given to concatenate_audio: canonical buffers with 0, 1 or 2
\* samples, one with half a sample, one of another rate, one cut short
\* inside its header, and one of float samples.
ClipPool ==
  {WavOf(10, <<>>), WavOf(10, <<1, 2>>), WavOf(10, <<3, 4, 5, 6>>),
   WavOf(10, <<7>>), WavOf(20, <<8, 9>>), SubSeq(WavOf(10, <<>>), 1, 20),
   FloatWav(10, <<0, 0, 64, 63>>)}

\* the pauses given to concatenate_audio: none, one that is not a whole
\* number of samples at 10 Hz, and the default
PauseChoices == {0, 250, DefaultPauseMs}

RECURSIVE ClipLists(_)
ClipLists(n) ==
  IF n = 0 THEN {<<>>}
  ELSE LET shorter == ClipLists(n - 1)
       IN  shorter \cup {Append(l, c) : l \in {x \in shorter : Len(x) = n - 1},
                                        c \in ClipPool}

(***************************************************************************)
(* The buffers given to _clean_wav.  A recipe is a magic, a list of chunks *)
(* and a number of bytes cut off the end; the buffer is what a RIFF writer *)
(* makes of it (every odd-sized payload followed by one pad byte).         *)
(***************************************************************************)
\* the 16-byte PCM fmt payload: format tag, channels, rate, byte rate,
\* block align, bits per sample
FmtPayload(tag, rate, bits) ==
  PackU16(tag) \o PackU16(1) \o PackU32(rate) \o PackU32(rate * (bits \div 8))
    \o PackU16(bits \div 8) \o PackU16(bits)

RECURSIVE Ramp(_)
Ramp(n) == IF n = 0 THEN <<>> ELSE Ramp(n - 1) \o <<n>>

\* a data payload that itself holds the bytes of a one-byte data chunk
EmbeddedData == <<0>> \o DATA \o PackU32(1) \o <<7>>

ChunkPool ==
  {[id |-> FMT, payload |-> FmtPayload(1, 10, 16)],
   [id |-> FMT, payload |-> FmtPayload(1, 10, 16) \o <<0>>]}
  \cup {[id |-> FLLR, payload |-> Bytes(n, 0)] : n \in 0..2}
  \cup {[id |-> DATA, payload |-> Ramp(n)] : n \in 0..MaxData}
  \cup {[id |-> DATA, payload |-> EmbeddedData]}

RECURSIVE ChunkLists(_)
ChunkLists(n) ==
  IF n = 0 THEN {<<>>}
  ELSE LET shorter == ChunkLists(n - 1)
       IN  shorter \cup {Append(l, c) : l \in {x \in shorter : Len(x) = n - 1},
                                        c \in ChunkPool}

Recipes ==
  [magic : {"ok", "noRIFF", "noWAVE"}, chunks : ChunkLists(MaxChunks),
   cut : 0..MaxCut]

ChunkBytes(c) ==
  c.id \o PackU32(Len(c.payload)) \o c.payload
       \o (IF Len(c.payload) % 2 = 1 THEN <<0>> ELSE <<>>)

RECURSIVE ChunksBytes(_)
ChunksBytes(l) == IF l = <<>> THEN <<>> ELSE ChunkBytes(Head(l)) \o ChunksBytes(Tail(l))

BuildWav(recipe) ==
  LET body == ChunksBytes(recipe.chunks)
      whole == (IF recipe.magic = "noRIFF" THEN <<82, 73, 70, 88>> ELSE RIFF)
               \o PackU32(4 + Len(body))
               \o (IF recipe.magic = "noWAVE" THEN <<65, 86, 73, 32>> ELSE WAVE)
               \o body
  IN  SubSeq(whole, 1, Len(whole) - Min(recipe.cut, Len(whole)))

(***************************************************************************)
(* AudioGenerator.generate and generate_simple: inputs and helpers.        *)
(***************************************************************************)
\* A chapter is a list of pieces: narration, or a quoted span with its
\* attribution.  The segmenter turns it into segments (narration stripped and
\* dropped when blank, dialogue stripped; an unknown speaker is the
\* narrator), or into one narration segment of the whole text.
PiecePool ==
  {[kind |-> "narration", speaker |-> "Narrator", text |-> <<"a">>],
   [kind |-> "narration", speaker |-> "Narrator", text |-> <<"fffd">>],
   [kind |-> "dialogue", speaker |-> "Alice", text |-> <<"a">>],
   [kind |-> "dialogue", speaker |-> "Alice", text |-> <<>>],
   [kind |-> "dialogue", speaker |-> "Narrator", text |-> <<"nul">>]}

RECURSIVE PieceLists(_)
PieceLists(n) ==
  IF n = 0 THEN {<<>>}
  ELSE LET shorter == PieceLists(n - 1)
       IN  shorter \cup {Append(l, c) : l \in {x \in shorter : Len(x) = n - 1},
                                        c \in PiecePool}

\* two narrations never stand side by side: they would be one narration
NoAdjacentNarration(l) ==
  \A k \in 1..(Len(l) - 1) :
    ~(l[k].kind = "narration" /\ l[k + 1].kind = "narration")

Chapters == {l \in PieceLists(MaxSegments) : NoAdjacentNarration(l)}

\* the text of a chapter: a quoted span is written quote, text, quote, space,
\* name, space, verb
RECURSIVE ChapterText(_)
ChapterText(pieces) ==
  IF pieces = <<>> THEN <<>>
  ELSE (IF Head(pieces).kind = "narration" THEN Head(pieces).text
        ELSE <<"a">> \o Head(pieces).text \o <<"a", "sp", "a", "sp", "a">>)
       \o ChapterText(Tail(pieces))

\* lines 143-170: the segments of the pieces, in order
RECURSIVE SegmentsFrom(_)
SegmentsFrom(pieces) ==
  IF pieces = <<>> THEN <<>>
  ELSE LET p == Head(pieces)
           t == Strip(p.text)
       IN  (IF p.kind = "narration" /\ t = <<>> THEN <<>>
            ELSE <<[speaker |-> p.speaker, text |-> t]>>)
           \o SegmentsFrom(Tail(pieces))

\* what _detect_dialogue_with_speakers returns for a chapter, line 182
SegmentsOf(pieces) ==
  LET segs == SegmentsFrom(pieces)
  IN  IF segs = <<>>
      THEN <<[speaker |-> "Narrator", text |-> ChapterText(pieces)]>>
      ELSE segs

\* the character records and the voice assignments given to generate
CharacterLists ==
  {<<>>,
   <<[name |-> "narrator", is_narrator |-> TRUE, voice_id |-> "af_heart"],
     [name |-> "Alice", is_narrator |-> FALSE, voice_id |-> "bf_emma"]>>}

AssignmentLists ==
  {<<>>, <<[character |-> "Alice", voice_id |-> "af_bella"]>>,
   <<[character |-> "Narrator", voice_id |-> "am_echo"]>>}

\* lines 57-61: the voice of the first record flagged is_narrator
RECURSIVE FirstNarratorVoiceOf(_, _)
FirstNarratorVoiceOf(characters, voice) ==
  IF characters = <<>> THEN voice
  ELSE IF Head(characters).is_narrator THEN Head(characters).voice_id
  ELSE FirstNarratorVoiceOf(Tail(characters), voice)

\* lines 66-69: the voice of the last record flagged is_narrator
RECURSIVE NarratorVoiceOf(_, _)
NarratorVoiceOf(characters, voice) ==
  IF characters = <<>> THEN voice
  ELSE NarratorVoiceOf(Tail(characters),
         IF Head(characters).is_narrator THEN Head(characters).voice_id ELSE voice)

\* lines 65-79: the voice of every name, assignments over character records
VoiceOfSpeaker(characters, assignments, speaker, narrator_voice) ==
  IF \E k \in 1..Len(assignments) : assignments[k].character = speaker
  THEN LET k == CHOOSE k \in 1..Len(assignments) :
                  /\ assignments[k].character = speaker
                  /\ \A j \in (k + 1)..Len(assignments) :
                       assignments[j].character # speaker
       IN  assignments[k].voice_id
  ELSE IF \E k \in 1..Len(characters) :
            characters[k].name = speaker /\ ~characters[k].is_narrator
  THEN LET k == CHOOSE k \in 1..Len(characters) :
                  characters[k].name = speaker /\ ~characters[k].is_narrator
       IN  characters[k].voice_id
  ELSE narrator_voice

\* line 200, line 206, line 95 and main.py line 605: `except Exception`
\* catches every exception but CancelledError, which is a BaseException
CaughtByExceptBaseException(exc) == TRUE

CaughtByExceptException(exc) == exc # "CancelledError"

\* what the Kokoro service may answer with status 200: any bytes
KokoroContents == {WavOf(10, <<1, 2>>), WavOf(10, <<>>), WavOf(10, <<7>>)}

\* what afconvert writes: fmt, a FLLR filler chunk, data
MacRawOutputs ==
  {RIFF \o PackU32(50) \o WAVE
        \o ChunkBytes([id |-> FMT, payload |-> FmtPayload(1, 10, 16)])
        \o ChunkBytes([id |-> FLLR, payload |-> <<0, 0>>])
        \o ChunkBytes([id |-> DATA, payload |-> <<3, 4>>])}

\* _generate_placeholder_audio, lines 328-357, at settings.audio_sample_rate
\* (the sample values of the tone are not modelled: every byte is 1)
PlaceholderAudio(text, sample_rate) ==
  LET n0 == Min((Len(text) * 5 * sample_rate) \div 100, 30 * sample_rate)
      num_samples == IF n0 = 0 THEN sample_rate ELSE n0
  IN  PcmHeader(sample_rate, num_samples) \o Bytes(2 * num_samples, 1)

\* lines 206-211: macOS speech failed
AfterMacFailureRaises(text, sample_rate) ==
  [pc |-> "raised", exc |-> "Exception", value |-> <<>>]

AfterMacFailure(text, sample_rate) ==
  [pc |-> "returned", exc |-> "", value |-> PlaceholderAudio(text, sample_rate)]

\* line 94 and line 99: audio_segments.append(audio)
AppendClipInFront(list, clip) == <<clip>> \o list

AppendClip(list, clip) == Append(list, clip)

\* Kokoro tried whatever backend is configured
FirstBackendAlwaysKokoro(tts_backend) == "kokoro"

\* lines 196-205: Kokoro first when it is the configured backend, macOS
\* speech first otherwise
FirstBackend(tts_backend) == IF tts_backend = "kokoro" THEN "kokoro" ELSE "mac"

\* line 193: `if not text.strip()`
IsRejectedNever(text) == FALSE

IsRejected(text) == Strip(text) = <<>>

(***************************************************************************)
(* AudioGenerator._detect_dialogue_with_speakers.  A text is a sequence of *)
(* characters: "q" a double quote, "ap" an apostrophe, "A" and "B" upper   *)
(* case letters, "l" a lower case letter, "V" the letters of one           *)
(* attribution verb (said, whispered, ...), "sp" a space, "c" a comma.     *)
(* Offsets are Python's: the number of characters before the position.     *)
(***************************************************************************)
\* the class ["'] of both patterns, lines 113 and 116
IsQuoteChar(c) == c \in {"q", "ap"}

\* [A-Z]
IsUpperChar(c) == c \in {"A", "B"}

\* [a-z]
IsLowerChar(c) == c \in {"l", "V"}

\* the class [,.:] of line 116
IsPunctChar(c) == c = "c"

\* the character at an offset, "" past the end
CharAt(t, pos) == IF pos < Len(t) THEN t[pos + 1] ELSE ""

\* \s*: the offset after the spaces that start at pos
RECURSIVE SkipSpaces(_, _)
SkipSpaces(t, pos) ==
  IF pos < Len(t) /\ IsSpace(t[pos + 1]) THEN SkipSpaces(t, pos + 1) ELSE pos

\* [a-z]*: the offset after the lower case letters that start at pos
RECURSIVE SkipLower(_, _)
SkipLower(t, pos) ==
  IF pos < Len(t) /\ IsLowerChar(t[pos + 1]) THEN SkipLower(t, pos + 1) ELSE pos

\* [^"']*: the offset after the characters that start at pos and are no quote
RECURSIVE SkipContent(_, _)
SkipContent(t, pos) ==
  IF pos < Len(t) /\ ~IsQuoteChar(t[pos + 1]) THEN SkipContent(t, pos + 1) ELSE pos

\* [A-Z][a-z]+ at pos: the offset after it, or -1
WordEnd(t, pos) ==
  IF IsUpperChar(CharAt(t, pos)) /\ SkipLower(t, pos + 1) > pos + 1
  THEN SkipLower(t, pos + 1)
  ELSE -1

\* ([A-Z][a-z]+(?:\s+[A-Z][a-z]+)?) at pos: the offsets it can end at, the
\* one the regex engine tries first in front
NameEnds(t, pos) ==
  LET e1 == WordEnd(t, pos)
  IN  IF e1 = -1 THEN <<>>
      ELSE LET s == SkipSpaces(t, e1)
               e2 == IF s > e1 THEN WordEnd(t, s) ELSE -1
           IN  IF e2 = -1 THEN <<e1>> ELSE <<e2, e1>>

\* \s+(?:said|...) at pos: the offset after the verb, or -1
VerbEnd(t, pos) ==
  LET s == SkipSpaces(t, pos)
  IN  IF s > pos /\ CharAt(t, s) = "V" THEN s + 1 ELSE -1

\* ["']([^"']+)["'] at pos: the offsets of the content and of the end, or
\* found FALSE
QuotedAt(t, pos) ==
  LET c == SkipContent(t, pos + 1)
  IN  IF IsQuoteChar(CharAt(t, pos)) /\ c > pos + 1 /\ IsQuoteChar(CharAt(t, c))
      THEN [found |-> TRUE, from |-> pos + 1, to |-> c, end |-> c + 1]
      ELSE [found |-> FALSE, from |-> 0, to |-> 0, end |-> 0]

\* from and to are the offsets of the content of the quoted span
NoMatch ==
  [found |-> FALSE, start |-> 0, end |-> 0, speaker |-> <<>>, dialogue |-> <<>>,
   from |-> 0, to |-> 0]

\* the first name end after which the verb follows, or -1
RECURSIVE NameWithVerb(_, _)
NameWithVerb(t, ends) ==
  IF ends = <<>> THEN -1
  ELSE IF VerbEnd(t, Head(ends)) # -1 THEN Head(ends)
  ELSE NameWithVerb(t, Tail(ends))

\* dialogue_pattern (line 113) at pos: quoted span, spaces, name, verb
DialogueAt(t, pos) ==
  LET qd == QuotedAt(t, pos)
  IN  IF ~qd.found THEN NoMatch
      ELSE LET n == SkipSpaces(t, qd.end)
               e == NameWithVerb(t, NameEnds(t, n))
           IN  IF e = -1 THEN NoMatch
               ELSE [found |-> TRUE, start |-> pos, end |-> VerbEnd(t, e),
                     speaker |-> Strip(SubSeq(t, n + 1, e)),
                     dialogue |-> Strip(SubSeq(t, qd.from + 1, qd.to)),
                     from |-> qd.from, to |-> qd.to]

\* what follows the verb in reverse_pattern (line 116): spaces, one of ,.:,
\* spaces, quoted span
QuotedAfterVerb(t, pos) ==
  LET p == SkipSpaces(t, pos)
  IN  IF IsPunctChar(CharAt(t, p)) THEN QuotedAt(t, SkipSpaces(t, p + 1))
      ELSE QuotedAt(t, Len(t))

\* the first name end after which verb, punctuation and quoted span follow
RECURSIVE NameWithVerbAndQuote(_, _)
NameWithVerbAndQuote(t, ends) ==
  IF ends = <<>> THEN -1
  ELSE IF VerbEnd(t, Head(ends)) # -1
          /\ QuotedAfterVerb(t, VerbEnd(t, Head(ends))).found
  THEN Head(ends)
  ELSE NameWithVerbAndQuote(t, Tail(ends))

\* reverse_pattern (line 116) at pos: name, verb, punctuation, quoted span
ReverseAt(t, pos) ==
  LET e == NameWithVerbAndQuote(t, NameEnds(t, pos))
  IN  IF e = -1 THEN NoMatch
      ELSE LET qd == QuotedAfterVerb(t, VerbEnd(t, e))
           IN  [found |-> TRUE, start |-> pos, end |-> qd.end,
                speaker |-> Strip(SubSeq(t, pos + 1, e)),
                dialogue |-> Strip(SubSeq(t, qd.from + 1, qd.to)),
                from |-> qd.from, to |-> qd.to]

\* re.finditer(dialogue_pattern, text), lines 121-128: leftmost matches that
\* do not overlap each other
RECURSIVE FindDialogue(_, _)
FindDialogue(t, pos) ==
  IF pos >= Len(t) THEN <<>>
  ELSE LET m == DialogueAt(t, pos)
       IN  IF m.found THEN <<m>> \o FindDialogue(t, m.end)
           ELSE FindDialogue(t, pos + 1)

\* re.finditer(reverse_pattern, text), lines 130-137
RECURSIVE FindReverse(_, _)
FindReverse(t, pos) ==
  IF pos >= Len(t) THEN <<>>
  ELSE LET m == ReverseAt(t, pos)
       IN  IF m.found THEN <<m>> \o FindReverse(t, m.end)
           ELSE FindReverse(t, pos + 1)

\* all_matches.sort(key=start), line 140: a stable sort
RECURSIVE SortByStart(_)
SortByStart(ms) ==
  IF ms = <<>> THEN <<>>
  ELSE LET k == CHOOSE k \in 1..Len(ms) :
                  /\ \A j \in 1..Len(ms) : ms[k].start <= ms[j].start
                  /\ \A j \in 1..(k - 1) : ms[j].start > ms[k].start
       IN  <<ms[k]>> \o SortByStart(SubSeq(ms, 1, k - 1) \o SubSeq(ms, k + 1, Len(ms)))

AllMatches(t) == SortByStart(FindDialogue(t, 0) \o FindReverse(t, 0))

\* the speaker of narration: the letters N, a, r, r, a, t, o, r
NarratorName == <<"N", "l", "l", "l", "l", "l", "l", "l">>

\* lines 156-169 with the speaker as matched, whoever it is
ResolveSpeakerAsMatched(speaker, char_voice_map) == speaker

\* lines 156-169: the matched name when it is a key of the map (or
\* "Narrator"), "Narrator" otherwise
ResolveSpeaker(speaker, char_voice_map) ==
  IF speaker \in char_voice_map \/ speaker = NarratorName THEN speaker
  ELSE NarratorName

\* lines 146-153 and 173-180: the narration of text[from:to], when not blank
NarrationSegment(t, from, to) ==
  LET narration == Strip(SubSeq(t, from + 1, to))
  IN  IF narration # <<>>
      THEN <<[speaker |-> NarratorName, text |-> narration, type |-> "narration"]>>
      ELSE <<>>

\* the walk of lines 143-180 from match k on, last_end being where the
\* match before it ended
RECURSIVE WalkMatches(_, _, _, _, _)
WalkMatches(t, ms, k, last_end, char_voice_map) ==
  IF k > Len(ms)
  THEN IF last_end < Len(t) THEN NarrationSegment(t, last_end, Len(t)) ELSE <<>>
  ELSE (IF ms[k].start > last_end
        THEN NarrationSegment(t, last_end, ms[k].start) ELSE <<>>)
       \o <<[speaker |-> ResolveSpeaker(ms[k].speaker, char_voice_map),
             text |-> ms[k].dialogue, type |-> "dialogue"]>>
       \o WalkMatches(t, ms, k + 1, ms[k].end, char_voice_map)

\* _detect_dialogue_with_speakers, lines 106-182
DetectDialogueWithSpeakers(t, char_voice_map) ==
  LET segs == WalkMatches(t, AllMatches(t), 1, 0, char_voice_map)
  IN  IF segs # <<>> THEN segs
      ELSE <<[speaker |-> NarratorName, text |-> t, type |-> "narration"]>>

\* The texts given to the segmenter: up to MaxParts parts, each a word, a
\* space, a comma, a quoted span (of a word, of a word with an apostrophe in
\* it, of a space) or a name with an attribution verb.
NameAl == <<"A", "l">>

NameBl == <<"B", "l">>

SegParts ==
  {<<"l">>, <<"sp">>, <<"c">>,
   <<"q", "l", "q">>, <<"q", "l", "ap", "l", "q">>, <<"q", "sp", "q">>,
   NameAl \o <<"sp", "V">>, NameBl \o <<"sp", "V">>}

RECURSIVE SegTexts(_)
SegTexts(n) ==
  IF n = 0 THEN {<<>>}
  ELSE {t \o part : t \in SegTexts(n - 1), part \in SegParts \cup {<<>>}}

\* the keys of the character/voice map
SegMaps == {{}, {NameAl}, {NameAl, NameBl}}

(***************************************************************************)
(* VoiceAssigner (src/pipeline/voice_assigner.py), CharacterDetector       *)
(* (src/pipeline/character_detector.py) and upload_book (src/main.py).     *)
(* A Python dict is the sequence of its entries in insertion order, each   *)
(* entry a record with the key in its field name.                          *)
(***************************************************************************)
\* AVAILABLE_VOICES, lines 19-42: id and gender of each voice
AVAILABLE_VOICES ==
  <<[id |-> "af_nova", gender |-> "female"],
    [id |-> "af_shimmer", gender |-> "female"],
    [id |-> "af_samantha", gender |-> "female"],
    [id |-> "af_zoey", gender |-> "female"],
    [id |-> "af_allison", gender |-> "female"],
    [id |-> "af_ava", gender |-> "female"],
    [id |-> "af_victoria", gender |-> "female"],
    [id |-> "am_alex", gender |-> "male"],
    [id |-> "am_daniel", gender |-> "male"],
    [id |-> "am_fred", gender |-> "male"],
    [id |-> "bf_amelie", gender |-> "female"],
    [id |-> "bm_daniel", gender |-> "male"],
    [id |-> "bm_oliver", gender |-> "male"]>>

CatalogIds == {AVAILABLE_VOICES[k].id : k \in 1..Len(AVAILABLE_VOICES)}

\* self.narrator_voice, line 80
narrator_voice == "af_samantha"

\* the default of upload_book for a character without an assignment,
\* src/main.py line 277
UploadDefaultVoice == "af_sky"

\* self.voices_by_gender, lines 74-77
voices_by_gender(gender) == SelectSeq(AVAILABLE_VOICES, LAMBDA v : v.gender = gender)

\* key in dict
HasKey(d, key) == \E k \in 1..Len(d) : d[k].name = key

\* dict[key]
Lookup(d, key) == d[CHOOSE k \in 1..Len(d) : d[k].name = key]

\* dict[entry.name] = entry: in place when the key is there, at the end
\* otherwise
DictSet(d, entry) ==
  IF HasKey(d, entry.name)
  THEN [k \in 1..Len(d) |-> IF d[k].name = entry.name THEN entry ELSE d[k]]
  ELSE Append(d, entry)

\* lines 103-106: the entries of a role, in order
OfRole(characters, role) == SelectSeq(characters, LAMBDA c : c.role = role)

\* lines 114-120: the voices of the gender, the female ones when the gender
\* is not male or female
Candidates(gender) ==
  IF gender = "male" THEN voices_by_gender("male") ELSE voices_by_gender("female")

\* lines 123-131: the first candidate not in use, else the first candidate
PickVoice(gender, used_voices) ==
  LET candidates == Candidates(gender)
      available == SelectSeq(candidates, LAMBDA v : v.id \notin used_voices)
  IN  IF available # <<>> THEN [id |-> available[1].id, fresh |-> TRUE]
      ELSE IF candidates # <<>> THEN [id |-> candidates[1].id, fresh |-> FALSE]
      ELSE [id |-> narrator_voice, fresh |-> FALSE]

\* the loop of lines 111-137 over the main characters from the i-th on
RECURSIVE AssignMain(_, _, _, _)
AssignMain(main_chars, i, used_voices, assignments) ==
  IF i > Len(main_chars)
  THEN [assignments |-> assignments, used_voices |-> used_voices]
  ELSE LET voice == PickVoice(main_chars[i].gender, used_voices)
       IN  AssignMain(main_chars, i + 1,
             IF voice.fresh THEN used_voices \cup {voice.id} ELSE used_voices,
             DictSet(assignments, [name |-> main_chars[i].name, voice_id |-> voice.id]))

\* lines 140-145: the key "Narrator" gets the narrator voice
AssignNarrator(characters, assignments) ==
  IF HasKey(characters, "Narrator")
  THEN DictSet(assignments, [name |-> "Narrator", voice_id |-> narrator_voice])
  ELSE assignments

\* the orders list(used_voices) can have, line 148: a set has no order the
\* program chooses
RECURSIVE OrdersOf(_)
OrdersOf(S) ==
  IF S = {} THEN {<<>>}
  ELSE UNION {{<<x>> \o rest : rest \in OrdersOf(S \ {x})} : x \in S}

\* line 148
MinorVoiceLists(used_voices) ==
  IF used_voices # {} THEN OrdersOf(used_voices) ELSE {<<narrator_voice>>}

\* the loop of lines 149-155 over the supporting characters from the i-th
\* (0-based) on
RECURSIVE AssignSupporting(_, _, _, _)
AssignSupporting(supporting, i, minor_voices, assignments) ==
  IF i >= Len(supporting) THEN assignments
  ELSE AssignSupporting(supporting, i + 1, minor_voices,
         DictSet(assignments,
                 [name |-> supporting[i + 1].name,
                  voice_id |-> minor_voices[(i % Len(minor_voices)) + 1]]))

\* what assign_voices has after its main loop, lines 100-137
MainPhase(characters) == AssignMain(OfRole(characters, "main"), 1, {}, <<>>)

\* assign_voices, lines 90-158, list(used_voices) being minor_voices
AssignVoices(characters, minor_voices) ==
  AssignSupporting(OfRole(characters, "supporting"), 0, minor_voices,
                   AssignNarrator(characters, MainPhase(characters).assignments))

\* the narrator entry of lines 122-126 and 257-261
NarratorEntry == [name |-> "narrator", gender |-> "unknown", role |-> "system"]

\* the narrator entry only when the key is not there yet
InjectNarratorIfAbsent(characters) ==
  IF HasKey(characters, "narrator") THEN characters
  ELSE Append(characters, NarratorEntry)

\* characters["narrator"] = {...}, lines 122-126 and 257-261
InjectNarrator(characters) == DictSet(characters, NarratorEntry)

\* The answers of the language model, lines 102-139: no connection, another
\* exception (a timeout), a status other than 200, a response that is no
\* JSON, JSON that is no object, JSON whose "characters" is no object, and
\* an object of characters.
LlmFailures == {"connect_error", "exception", "status", "not_json",
                "not_object", "characters_not_object"}

\* _detect_with_llm, lines 101-139: the dict it returns
DetectWithLlm(reply) ==
  IF reply.kind = "characters" THEN InjectNarrator(reply.characters) ELSE <<>>

\* line 69: the result of the language model is kept
LlmResultKept(characters) == characters # <<>> /\ Len(characters) > 1

\* lines 243-248
MainThreshold == 10

SupportingThreshold == 3

RoleOfCount(count) ==
  IF count >= MainThreshold THEN "main"
  ELSE IF count >= SupportingThreshold THEN "supporting"
  ELSE "minor"

\* lines 234-240: the gender with the higher weight, unknown on a tie
GenderOfHints(female, male) ==
  IF female > male THEN "female"
  ELSE IF male > female THEN "male"
  ELSE "unknown"

\* speakers.most_common(15), line 231: by count, the highest first, equal
\* counts in the order of insertion
MostCommonLimit == 15

RECURSIVE MostCommon(_)
MostCommon(speakers) ==
  IF speakers = <<>> THEN <<>>
  ELSE LET k == CHOOSE k \in 1..Len(speakers) :
                  /\ \A j \in 1..Len(speakers) : speakers[k].count >= speakers[j].count
                  /\ \A j \in 1..(k - 1) : speakers[j].count < speakers[k].count
       IN  <<speakers[k]>>
           \o MostCommon(SubSeq(speakers, 1, k - 1) \o SubSeq(speakers, k + 1, Len(speakers)))

\* lines 230-254: the characters of the counted names
RECURSIVE CharactersOfCounts(_)
CharactersOfCounts(common) ==
  IF common = <<>> THEN <<>>
  ELSE <<[name |-> Head(common).name,
          gender |-> GenderOfHints(Head(common).female, Head(common).male),
          role |-> RoleOfCount(Head(common).count)]>>
       \o CharactersOfCounts(Tail(common))

\* the heuristics with every counted name kept
DetectWithHeuristicsUncapped(speakers) ==
  InjectNarrator(CharactersOfCounts(MostCommon(speakers)))

\* _detect_with_heuristics, lines 229-264, of the counter of lines 159-200
\* and the gender hints of lines 204-227
DetectWithHeuristics(speakers) ==
  LET common == MostCommon(speakers)
      kept == SubSeq(common, 1, Min(Len(common), MostCommonLimit))
  IN  InjectNarrator(CharactersOfCounts(kept))

\* str.lower of a name
LowerName(name) ==
  CASE name = "Narrator" -> "narrator"
    [] name = "Alice" -> "alice"
    [] name = "Bob" -> "bob"
    [] OTHER -> name

\* upload_book, src/main.py lines 275-281: the rows inserted for the
\* characters
RECURSIVE CharacterRows(_, _)
CharacterRows(characters, assignments) ==
  IF characters = <<>> THEN <<>>
  ELSE LET c == Head(characters)
       IN  <<[name |-> c.name,
              gender |-> c.gender,
              voice_id |-> IF HasKey(assignments, c.name)
                           THEN Lookup(assignments, c.name).voice_id
                           ELSE UploadDefaultVoice,
              is_narrator |-> LowerName(c.name) = "narrator"]>>
           \o CharacterRows(Tail(characters), assignments)

\* valid_ids, src/main.py line 532
IsValidVoiceId(voice_id) == voice_id \in CatalogIds

\* UPDATE characters SET voice_id = ? WHERE book_id = ? AND name = ?,
\* src/main.py lines 536-539
UpdateRows(rows, char_name, voice_id) ==
  [k \in 1..Len(rows) |->
     IF rows[k].name = char_name THEN [rows[k] EXCEPT !.voice_id = voice_id]
     ELSE rows[k]]

\* update_character_voice, src/main.py lines 519-542: the rows of the book
\* afterwards and the status answered; "" is a body without voice_id
UpdateCharacterVoice(rows, char_name, voice_id) ==
  IF voice_id = "" THEN [rows |-> rows, status |-> 400]
  ELSE IF ~IsValidVoiceId(voice_id) THEN [rows |-> rows, status |-> 400]
  ELSE [rows |-> UpdateRows(rows, char_name, voice_id), status |-> 200]

\* the overrides asked for: of a character of the book or of a name that is
\* not in it, with a voice of the catalog, a voice that is not in it, or none
OverrideNames == {"Alice", "narrator", "Zed"}

OverrideVoices == {"am_fred", "af_sky", "bogus", ""}

\* The inputs: the characters a language model names, and the names the
\* heuristic patterns count with the weights of their gender hints.
RECURSIVE EntryLists(_, _)
EntryLists(pool, n) ==
  IF n = 0 THEN {<<>>}
  ELSE LET shorter == EntryLists(pool, n - 1)
       IN  shorter \cup {Append(l, e) : l \in {x \in shorter : Len(x) = n - 1},
                                        e \in pool}

DistinctNames(l) == \A i, j \in 1..Len(l) : l[i].name = l[j].name => i = j

LlmCharacterPool ==
  [name : {"Alice", "Bob", "Narrator", "narrator"},
   gender : {"female", "male", "unknown"},
   role : {"main", "supporting", "minor"}]

LlmReplies ==
  {[kind |-> f, characters |-> <<>>] : f \in LlmFailures}
  \cup {[kind |-> "characters", characters |-> l] :
          l \in {x \in EntryLists(LlmCharacterPool, MaxCharacters) : DistinctNames(x)}}

HintWeights == {<<0, 0>>, <<2, 0>>, <<0, 3>>, <<2, 3>>, <<2, 2>>}

SpeakerPool ==
  {[name |-> n, count |-> c, female |-> w[1], male |-> w[2]] :
     n \in {"Alice", "Bob", "Narrator"}, c \in {1, SupportingThreshold, MainThreshold},
     w \in HintWeights}

\* A counter of one name more than most_common keeps: every name counted
\* three times but one, which is counted once, three or ten times.
CrowdNames ==
  <<"Carol", "Dave", "Erin", "Frank", "Grace", "Heidi", "Ivan", "Judy",
    "Karl", "Laura", "Mike", "Nina", "Oscar", "Peggy", "Quinn", "Ruth">>

CrowdCounters ==
  {[k \in 1..(MostCommonLimit + 1) |->
      [name |-> CrowdNames[k],
       count |-> IF k = p THEN c ELSE SupportingThreshold,
       female |-> 0, male |-> 0]] :
     p \in 1..(MostCommonLimit + 1), c \in {1, SupportingThreshold, MainThreshold}}

SpeakerCounters ==
  {x \in EntryLists(SpeakerPool, MaxCharacters) : DistinctNames(x)}
    \cup CrowdCounters

(***************************************************************************)
(* State.                                                                  *)
(***************************************************************************)
VARIABLES
  wavRecipe,   \* how the buffer given to _clean_wav was made
  wavIn,       \* the buffer given to _clean_wav
  wavOut,      \* the results of _clean_wav applied once, twice to wavIn
  catIn,       \* the list of buffers given to concatenate_audio
  catOut,      \* <<>> or the one result of concatenate_audio(catIn, pause_ms)
  pause_ms,    \* the pause given to concatenate_audio, in milliseconds
  settings,    \* config.settings: tts_backend, max_chunk_size, audio_sample_rate
  request,     \* the request: kind "tts" (text) or "chapter" (pieces,
               \* characters, voice_assignments)
  pc,          \* where AudioGenerator.generate, or the endpoint, stands
  segments,    \* generate: the segments of the chapter
  idx,         \* generate: the segment the for loop stands at (1-based)
  audio_segments,  \* generate: the clips appended so far
  clipSeg,     \* for each clip of audio_segments, the segment it is of
  gs,          \* the running generate_simple call: where it stands
  gsLog,       \* the generate_simple calls made so far, with their argument
  calls,       \* the backend calls dispatched so far
  outcomes,    \* for each backend call, how it ended
  cancelRequested,  \* task.cancel() was called on the request's task
  cancelObserved,   \* CancelledError was raised inside the request's task
  result,      \* what the request ended with
  segText,     \* the text given to _detect_dialogue_with_speakers
  char_voice_map,  \* the keys of the map given to it
  segOut,      \* <<>> or the one list of segments it returned
  upPc,        \* where upload_book stands
  upReply,     \* what the language model answered to _detect_with_llm
  upSpeakers,  \* the names counted by _detect_with_heuristics
  upCharacters,    \* the dict returned by CharacterDetector.detect
  upAssignments,   \* the dict returned by VoiceAssigner.assign_voices
  upRows,      \* the rows of the characters table
  upOverride   \* the last voice override: the voice_id asked for and the
               \* status answered

wavVars == <<wavRecipe, wavIn, wavOut>>

catVars == <<catIn, catOut, pause_ms>>

pipeVars == <<settings, request, pc, segments, idx, audio_segments, clipSeg,
              gs, gsLog, calls, outcomes, cancelRequested, cancelObserved,
              result>>

segVars == <<segText, char_voice_map, segOut>>

vars == <<wavRecipe, wavIn, wavOut, catIn, catOut, pause_ms, settings, request, pc,
          segments, idx, audio_segments, clipSeg, gs, gsLog, calls, outcomes,
          cancelRequested, cancelObserved, result, segText, char_voice_map,
          segOut, upPc, upReply, upSpeakers, upCharacters, upAssignments,
          upRows, upOverride>>

upVars ==
  <<upPc, upReply, upSpeakers, upCharacters, upAssignments, upRows, upOverride>>

NoReply == [kind |-> "none", characters |-> <<>>]

NoOverride == [voice_id |-> "", status |-> 0]

UpIdle ==
  /\ upPc = "idle"
  /\ upReply = NoReply
  /\ upSpeakers = <<>>
  /\ upCharacters = <<>>
  /\ upAssignments = <<>>
  /\ upRows = <<>>
  /\ upOverride = NoOverride

SegIdle == segText = <<>> /\ char_voice_map = {} /\ segOut = <<>>

WavIdle == wavRecipe = [magic |-> "ok", chunks |-> <<>>, cut |-> 0]
           /\ wavIn = <<>> /\ wavOut = <<>>

CatIdle == catIn = <<>> /\ catOut = <<>> /\ pause_ms = DefaultPauseMs

GsNone == [pc |-> "none", site |-> "", text |-> <<>>, voice_id |-> "",
           exc |-> "", value |-> <<>>]

NoResult == [status |-> "none", value |-> <<>>, arrays |-> <<>>]

PipeIdle ==
  /\ settings = [tts_backend |-> "kokoro", max_chunk_size |-> 1,
                 audio_sample_rate |-> 10]
  /\ request = [kind |-> "none"]
  /\ pc = "idle"
  /\ segments = <<>>
  /\ idx = 1
  /\ audio_segments = <<>>
  /\ clipSeg = <<>>
  /\ gs = GsNone
  /\ gsLog = <<>>
  /\ calls = <<>>
  /\ outcomes = <<>>
  /\ cancelRequested = FALSE
  /\ cancelObserved = FALSE
  /\ result = NoResult

(***************************************************************************)
(* Sanitizing one buffer, then sanitizing the result again.                *)
(***************************************************************************)
InitWav ==
  /\ wavRecipe \in Recipes
  /\ wavIn = BuildWav(wavRecipe)
  /\ wavOut = <<>>
  /\ CatIdle
  /\ PipeIdle
  /\ SegIdle
  /\ UpIdle

\* one call of _clean_wav: on the input, then on the previous result
Sanitize ==
  /\ Len(wavOut) < 2
  /\ wavOut # <<>> => ~wavOut[Len(wavOut)].raised
  /\ wavOut' = Append(wavOut,
                 CleanWavResult(IF wavOut = <<>> THEN wavIn
                                ELSE wavOut[Len(wavOut)].value))
  /\ UNCHANGED <<wavRecipe, wavIn>>
  /\ UNCHANGED catVars
  /\ UNCHANGED pipeVars
  /\ UNCHANGED <<segVars, upVars>>

NextWav == Sanitize

SpecWav == InitWav /\ [][NextWav]_vars

(***************************************************************************)
(* Concatenating one list of buffers.                                      *)
(***************************************************************************)
InitConcat ==
  /\ catIn \in ClipLists(MaxClips)
  /\ pause_ms \in PauseChoices
  /\ catOut = <<>>
  /\ WavIdle
  /\ PipeIdle
  /\ SegIdle
  /\ UpIdle

\* one call of concatenate_audio
Concatenate ==
  /\ catOut = <<>>
  /\ catOut' = <<ConcatenateAudio(catIn, pause_ms)>>
  /\ UNCHANGED <<catIn, pause_ms>>
  /\ UNCHANGED wavVars
  /\ UNCHANGED pipeVars
  /\ UNCHANGED <<segVars, upVars>>

NextConcat == Concatenate

SpecConcat == InitConcat /\ [][NextConcat]_vars

(***************************************************************************)
(* One request: POST /api/tts/generate (generate_simple) or the generation *)
(* of a chapter's audio (generate).                                        *)
(***************************************************************************)
Requests ==
  {[kind |-> "tts", text |-> t, pieces |-> <<>>, characters |-> <<>>,
    voice_assignments |-> <<>>] : t \in Texts}
  \cup
  {[kind |-> "chapter", text |-> ChapterText(p), pieces |-> p,
    characters |-> ca[1], voice_assignments |-> ca[2]] :
     p \in Chapters,
     ca \in {x \in CharacterLists \X AssignmentLists :
               x[1] = <<>> => x[2] = <<>>}}

InitPipeline ==
  /\ settings \in [tts_backend : {"kokoro", "elevenlabs"},
                   max_chunk_size : 1..MaxChunkSize,
                   audio_sample_rate : {10}]
  /\ request \in Requests
  /\ pc = IF request.kind = "tts" THEN "api" ELSE "start"
  /\ segments = <<>>
  /\ idx = 1
  /\ audio_segments = <<>>
  /\ clipSeg = <<>>
  /\ gs = GsNone
  /\ gsLog = <<>>
  /\ calls = <<>>
  /\ outcomes = <<>>
  /\ cancelRequested = FALSE
  /\ cancelObserved = FALSE
  /\ result = NoResult
  /\ WavIdle
  /\ CatIdle
  /\ SegIdle
  /\ UpIdle

\* narrator_voice of the loop, lines 66-69
NarratorVoice == NarratorVoiceOf(request.characters, "af_sky")

\* a call of generate_simple(text, voice_id) from `site`
CallGenerateSimple(site, text, voice_id) ==
  /\ gs' = [pc |-> "enter", site |-> site, text |-> text, voice_id |-> voice_id,
            exc |-> "", value |-> <<>>]
  /\ gsLog' = Append(gsLog, [site |-> site, text |-> text, seg |-> idx])

\* a backend call is dispatched
Dispatch(backend, text, voice_id) ==
  [backend |-> backend, gsno |-> Len(gsLog), text |-> text, voice_id |-> voice_id]

SetLast(seq, v) == [seq EXCEPT ![Len(seq)] = v]

\* main.py lines 586-604: the endpoint calls generate_simple
TtsStart ==
  /\ pc = "api"
  /\ pc' = "L600"
  /\ CallGenerateSimple("L600", request.text, "af_sky")
  /\ UNCHANGED <<wavVars, catVars, segVars, upVars>>
  /\ UNCHANGED <<settings, request, segments, idx, audio_segments, clipSeg,
                 calls, outcomes, cancelRequested, cancelObserved, result>>

\* generate, lines 55-82
GenerateStart ==
  /\ pc = "start"
  /\ IF request.characters = <<>> \/ request.voice_assignments = <<>>
     THEN /\ pc' = "L62"
          /\ CallGenerateSimple("L62", request.text,
                                FirstNarratorVoiceOf(request.characters, "af_sky"))
          /\ UNCHANGED segments
     ELSE /\ pc' = "loop"
          /\ segments' = SegmentsOf(request.pieces)
          /\ UNCHANGED <<gs, gsLog>>
  /\ UNCHANGED <<wavVars, catVars, segVars, upVars>>
  /\ UNCHANGED <<settings, request, idx, audio_segments, clipSeg, calls,
                 outcomes, cancelRequested, cancelObserved, result>>

\* lines 85-89: a segment whose text is blank is skipped
SkipBlankSegment ==
  /\ pc = "loop"
  /\ idx <= Len(segments)
  /\ Strip(segments[idx].text) = <<>>
  /\ idx' = idx + 1
  /\ UNCHANGED <<wavVars, catVars, segVars, upVars>>
  /\ UNCHANGED <<settings, request, pc, segments, audio_segments, clipSeg, gs,
                 gsLog, calls, outcomes, cancelRequested, cancelObserved, result>>

\* lines 91-93: the segment is synthesized with its speaker's voice
DispatchSegment ==
  /\ pc = "loop"
  /\ idx <= Len(segments)
  /\ Strip(segments[idx].text) # <<>>
  /\ pc' = "L93"
  /\ CallGenerateSimple("L93", segments[idx].text,
       VoiceOfSpeaker(request.characters, request.voice_assignments,
                      segments[idx].speaker, NarratorVoice))
  /\ UNCHANGED <<wavVars, catVars, segVars, upVars>>
  /\ UNCHANGED <<settings, request, segments, idx, audio_segments, clipSeg,
                 calls, outcomes, cancelRequested, cancelObserved, result>>

\* lines 94 and 99: the clip is appended and the loop goes on
SegmentDone ==
  /\ pc \in {"L93", "L98"}
  /\ gs.pc = "returned"
  /\ audio_segments' = AppendClip(audio_segments, gs.value)
  /\ clipSeg' = AppendClip(clipSeg, idx)
  /\ idx' = idx + 1
  /\ pc' = "loop"
  /\ gs' = GsNone
  /\ UNCHANGED <<wavVars, catVars, segVars, upVars>>
  /\ UNCHANGED <<settings, request, segments, gsLog, calls, outcomes,
                 cancelRequested, cancelObserved, result>>

\* lines 95-98: generate_simple raised an Exception; the segment is tried
\* again with the narrator's voice
SegmentRetry ==
  /\ pc = "L93"
  /\ gs.pc = "raised"
  /\ CaughtByExceptException(gs.exc)
  /\ pc' = "L98"
  /\ CallGenerateSimple("L98", segments[idx].text, NarratorVoice)
  /\ UNCHANGED <<wavVars, catVars, segVars, upVars>>
  /\ UNCHANGED <<settings, request, segments, idx, audio_segments, clipSeg,
                 calls, outcomes, cancelRequested, cancelObserved, result>>

\* an exception leaves generate: from line 93 when `except Exception` does
\* not catch it, from lines 62, 98 and 102 always
Propagate ==
  /\ \/ pc = "L93" /\ ~CaughtByExceptException(gs.exc)
     \/ pc \in {"L62", "L98", "L102"}
  /\ gs.pc = "raised"
  /\ pc' = IF gs.exc = "CancelledError" THEN "cancelled" ELSE "raised"
  /\ result' = [status |-> gs.exc, value |-> <<>>, arrays |-> <<>>]
  /\ gs' = GsNone
  /\ UNCHANGED <<wavVars, catVars, segVars, upVars>>
  /\ UNCHANGED <<settings, request, segments, idx, audio_segments, clipSeg,
                 gsLog, calls, outcomes, cancelRequested, cancelObserved>>

\* lines 101-102: no clip at all, the whole text is synthesized
FallbackWholeText ==
  /\ pc = "loop"
  /\ idx > Len(segments)
  /\ audio_segments = <<>>
  /\ pc' = "L102"
  /\ CallGenerateSimple("L102", request.text, NarratorVoice)
  /\ UNCHANGED <<wavVars, catVars, segVars, upVars>>
  /\ UNCHANGED <<settings, request, segments, idx, audio_segments, clipSeg,
                 calls, outcomes, cancelRequested, cancelObserved, result>>

\* lines 62 and 102: the audio of the whole text is the result
WholeTextDone ==
  /\ pc \in {"L62", "L102"}
  /\ gs.pc = "returned"
  /\ pc' = "done"
  /\ result' = [status |-> "audio", value |-> gs.value, arrays |-> <<>>]
  /\ gs' = GsNone
  /\ UNCHANGED <<wavVars, catVars, segVars, upVars>>
  /\ UNCHANGED <<settings, request, segments, idx, audio_segments, clipSeg,
                 gsLog, calls, outcomes, cancelRequested, cancelObserved>>

\* line 104: the clips are concatenated
Assemble ==
  /\ pc = "loop"
  /\ idx > Len(segments)
  /\ audio_segments # <<>>
  /\ LET r == ConcatenateAudio(audio_segments, DefaultPauseMs)
     IN  /\ pc' = IF r.raised THEN "raised" ELSE "done"
         /\ result' = [status |-> IF r.raised THEN "Exception" ELSE "audio",
                       value |-> r.value, arrays |-> r.arrays]
  /\ UNCHANGED <<wavVars, catVars, segVars, upVars>>
  /\ UNCHANGED <<settings, request, segments, idx, audio_segments, clipSeg, gs,
                 gsLog, calls, outcomes, cancelRequested, cancelObserved>>

\* main.py lines 605-609: the endpoint answers
TtsDone ==
  /\ pc = "L600"
  /\ gs.pc \in {"returned", "raised"}
  /\ pc' = IF gs.pc = "returned" \/ CaughtByExceptException(gs.exc)
           THEN "done" ELSE "cancelled"
  /\ result' = [status |-> IF gs.pc = "returned" THEN "audio" ELSE gs.exc,
                value |-> gs.value, arrays |-> <<>>]
  /\ gs' = GsNone
  /\ UNCHANGED <<wavVars, catVars, segVars, upVars>>
  /\ UNCHANGED <<settings, request, segments, idx, audio_segments, clipSeg,
                 gsLog, calls, outcomes, cancelRequested, cancelObserved>>

\* generate_simple, lines 188-205: the text is cleaned, then rejected or
\* handed to the first backend
GsEnter ==
  /\ gs.pc = "enter"
  /\ LET text == CleanText(gs.text, settings.max_chunk_size)
     IN  IF IsRejected(text)
         THEN /\ gs' = [gs EXCEPT !.pc = "raised", !.exc = "ValueError"]
              /\ UNCHANGED <<calls, outcomes>>
         ELSE /\ gs' = [gs EXCEPT
                          !.pc = FirstBackend(settings.tts_backend),
                          !.text = text]
              /\ calls' = Append(calls,
                            Dispatch(FirstBackend(settings.tts_backend),
                                     text, gs.voice_id))
              /\ outcomes' = Append(outcomes, "pending")
  /\ UNCHANGED <<wavVars, catVars, segVars, upVars>>
  /\ UNCHANGED <<settings, request, pc, segments, idx, audio_segments, clipSeg,
                 gsLog, cancelRequested, cancelObserved, result>>

\* line 199 and lines 226-227: Kokoro answers 200 with some content
KokoroReturns ==
  /\ gs.pc = "kokoro"
  /\ ~cancelRequested
  /\ \E content \in KokoroContents :
       gs' = [gs EXCEPT !.pc = "returned", !.value = content]
  /\ outcomes' = SetLast(outcomes, "ok")
  /\ UNCHANGED <<wavVars, catVars, segVars, upVars>>
  /\ UNCHANGED <<settings, request, pc, segments, idx, audio_segments, clipSeg,
                 gsLog, calls, cancelRequested, cancelObserved, result>>

\* lines 200-205: `exc` was raised by the Kokoro call; when it is caught the
\* macOS speech call is dispatched
KokoroRaised(exc, outcome) ==
  IF CaughtByExceptException(exc)
  THEN /\ gs' = [gs EXCEPT !.pc = "mac"]
       /\ calls' = Append(calls, Dispatch("mac", gs.text, gs.voice_id))
       /\ outcomes' = Append(SetLast(outcomes, outcome), "pending")
  ELSE /\ gs' = [gs EXCEPT !.pc = "raised", !.exc = exc]
       /\ outcomes' = SetLast(outcomes, outcome)
       /\ UNCHANGED calls

\* lines 215-229: the service is unreachable, times out or answers an error
KokoroFails ==
  /\ gs.pc = "kokoro"
  /\ ~cancelRequested
  /\ KokoroRaised("Exception", "failed")
  /\ UNCHANGED <<wavVars, catVars, segVars, upVars>>
  /\ UNCHANGED <<settings, request, pc, segments, idx, audio_segments, clipSeg,
                 gsLog, cancelRequested, cancelObserved, result>>

\* the request's task is cancelled while it waits for Kokoro, the only place
\* where generate gives the event loop the hand
CancelRequest ==
  /\ gs.pc = "kokoro"
  /\ ~cancelRequested
  /\ cancelRequested' = TRUE
  /\ UNCHANGED <<wavVars, catVars, segVars, upVars>>
  /\ UNCHANGED <<settings, request, pc, segments, idx, audio_segments, clipSeg,
                 gs, gsLog, calls, outcomes, cancelObserved, result>>

\* the task resumes: CancelledError is raised at the await of line 216
KokoroCancelled ==
  /\ gs.pc = "kokoro"
  /\ cancelRequested
  /\ cancelObserved' = TRUE
  /\ KokoroRaised("CancelledError", "cancelled")
  /\ UNCHANGED <<wavVars, catVars, segVars, upVars>>
  /\ UNCHANGED <<settings, request, pc, segments, idx, audio_segments, clipSeg,
                 gsLog, cancelRequested, result>>

\* lines 205 and 243-256: say and afconvert succeed, the file is sanitized
MacReturns ==
  /\ gs.pc = "mac"
  /\ \E raw \in MacRawOutputs :
       gs' = [gs EXCEPT !.pc = "returned", !.value = CleanWav(raw)]
  /\ outcomes' = SetLast(outcomes, "ok")
  /\ UNCHANGED <<wavVars, catVars, segVars, upVars>>
  /\ UNCHANGED <<settings, request, pc, segments, idx, audio_segments, clipSeg,
                 gsLog, calls, cancelRequested, cancelObserved, result>>

\* lines 206-211: say or afconvert fails
MacFails ==
  /\ gs.pc = "mac"
  /\ LET r == AfterMacFailure(gs.text, settings.audio_sample_rate)
     IN  /\ gs' = [gs EXCEPT !.pc = r.pc, !.exc = r.exc, !.value = r.value]
         /\ IF r.pc = "returned"
            THEN /\ calls' = Append(calls,
                               Dispatch("placeholder", gs.text, gs.voice_id))
                 /\ outcomes' = Append(SetLast(outcomes, "failed"), "ok")
            ELSE /\ outcomes' = SetLast(outcomes, "failed")
                 /\ UNCHANGED calls
  /\ UNCHANGED <<wavVars, catVars, segVars, upVars>>
  /\ UNCHANGED <<settings, request, pc, segments, idx, audio_segments, clipSeg,
                 gsLog, cancelRequested, cancelObserved, result>>

NextPipeline ==
  \/ TtsStart
  \/ GenerateStart
  \/ SkipBlankSegment
  \/ DispatchSegment
  \/ SegmentDone
  \/ SegmentRetry
  \/ Propagate
  \/ FallbackWholeText
  \/ WholeTextDone
  \/ Assemble
  \/ TtsDone
  \/ GsEnter
  \/ KokoroReturns
  \/ KokoroFails
  \/ CancelRequest
  \/ KokoroCancelled
  \/ MacReturns
  \/ MacFails

SpecPipeline == InitPipeline /\ [][NextPipeline]_vars

(***************************************************************************)
(* Claims about _clean_wav, checked under SpecWav.                         *)
(***************************************************************************)
\* the buffer given to the k-th call of _clean_wav
SanitizeInput(k) == IF k = 1 THEN wavIn ELSE wavOut[k - 1].value

\* the recipe is a well-formed buffer of a fmt chunk, one FLLR chunk and a
\* data chunk
IsFmtFllrData ==
  /\ wavRecipe.magic = "ok"
  /\ wavRecipe.cut = 0
  /\ Len(wavRecipe.chunks) = 3
  /\ wavRecipe.chunks[1].id = FMT
  /\ wavRecipe.chunks[2].id = FLLR
  /\ wavRecipe.chunks[3].id = DATA

PadOf(payload) == IF Len(payload) % 2 = 1 THEN 1 ELSE 0

\* the bytes of `out` after a RIFF header, a fmt chunk of fmt_len bytes and
\* a data header announcing the payload `d`, when `out` has that shape
HasDataPayload(out, fmt_len, d) ==
  /\ PySlice(out, 12 + 8 + fmt_len, 12 + 8 + fmt_len + 8) = DATA \o PackU32(Len(d))
  /\ PySlice(out, 12 + 8 + fmt_len + 8, Len(out)) = d

\* C6: _clean_wav is idempotent: sanitizing a sanitized buffer changes
\* nothing, for every buffer (odd-sized chunks, duplicate chunks, truncated
\* chunks, zero-length data included).
C6_CleanWavIdempotent ==
  Len(wavOut) = 2 => wavOut[2] = wavOut[1]

\* C7: _clean_wav never raises, and a buffer without the RIFF/WAVE magic,
\* or in which the walk finds no fmt chunk or no data chunk, is returned
\* byte-identical.
C7_PassThroughUnchanged ==
  \A k \in 1..Len(wavOut) :
    LET w == SanitizeInput(k)
        r == WalkChunks(w, 12, NoChunk, NoChunk, 0)
    IN  /\ ~wavOut[k].raised
        /\ (~HasMagic(w) \/ r.fmt = NoChunk \/ r.data = NoChunk)
             => wavOut[k].value = w

\* C7 witness: a buffer of at least 44 bytes with the magic and a fmt chunk
\* but no data chunk has been sanitized and came back unchanged.
C7_Witness ==
  /\ Len(wavOut) >= 1
  /\ Len(wavIn) >= 44
  /\ HasMagic(wavIn)
  /\ \E k \in 1..Len(wavRecipe.chunks) : wavRecipe.chunks[k].id = FMT
  /\ \A k \in 1..Len(wavRecipe.chunks) : wavRecipe.chunks[k].id # DATA
  /\ wavOut[1].value = wavIn

IsRiffFmtData(out) ==
  /\ Len(out) >= 28
  /\ PySlice(out, 0, 4) = RIFF
  /\ UnpackU32(PySlice(out, 4, 8)) = Len(out) - 8
  /\ PySlice(out, 8, 12) = WAVE
  /\ PySlice(out, 12, 16) = FMT
  /\ LET fmt_size == UnpackU32(PySlice(out, 16, 20))
     IN  /\ Len(out) >= 28 + fmt_size
         /\ PySlice(out, 20 + fmt_size, 24 + fmt_size) = DATA
         /\ UnpackU32(PySlice(out, 24 + fmt_size, 28 + fmt_size))
              = Len(out) - (28 + fmt_size)

C9_EmptyAndSingle ==
  catOut # <<>> =>
    /\ catIn = <<>> => (~catOut[1].raised /\ catOut[1].value = <<>>)
    /\ Len(catIn) = 1 => (~catOut[1].raised /\ catOut[1].value = catIn[1])

\* C9 witness: a single buffer that is not a canonical 44-byte-header
\* buffer has been concatenated and came back unchanged.
C9_Witness ==
  /\ catOut # <<>>
  /\ Len(catIn) = 1
  /\ Len(catIn[1]) = 20
  /\ catOut[1].value = catIn[1]

\* C10: in the arrays concatenate_audio joins, silence stands only between
\* two audio arrays: the first and the last array are audio, never silence.
C10_SilenceOnlyBetween ==
  (catOut # <<>> /\ ~catOut[1].raised /\ catOut[1].arrays # <<>>) =>
    LET a == catOut[1].arrays
    IN  /\ a[1].kind = "audio"
        /\ a[Len(a)].kind = "audio"
        /\ \A k \in 1..Len(a) :
             a[k].kind = "pause" =>
               (k > 1 /\ k < Len(a)
                /\ a[k - 1].kind = "audio" /\ a[k + 1].kind = "audio")

(***************************************************************************)
(* Claims about generate and generate_simple, checked under SpecPipeline.  *)
(***************************************************************************)
\* the request is a chapter generation that entered the segment loop
InSegmentLoop ==
  /\ request.kind = "chapter"
  /\ request.characters # <<>>
  /\ request.voice_assignments # <<>>
  /\ pc # "start"

\* a text with something to synthesize within the first max_chunk_size
\* characters: a character that is neither whitespace, NUL nor U+FFFD
HasContent(text) ==
  \E k \in 1..Len(text) :
    k <= settings.max_chunk_size /\ text[k] = "a"

\* C1: a segment's failure does not abort the other segments: whenever at
\* least one segment can be synthesized generate returns audio, so it ends
\* with an exception only when no segment can be synthesized.
C1_SegmentFailuresIsolated ==
  (InSegmentLoop /\ pc = "raised") =>
    \A k \in 1..Len(segments) : ~HasContent(segments[k].text)

\* C2: the clips handed to concatenate_audio are in segment order, and so
\* are the audio arrays it joins.
C2_ClipsInSegmentOrder ==
  /\ Len(clipSeg) = Len(audio_segments)
  /\ \A i, j \in 1..Len(clipSeg) : i < j => clipSeg[i] < clipSeg[j]
  /\ \A i, j \in 1..Len(result.arrays) :
       (i < j /\ result.arrays[i].kind = "audio" /\ result.arrays[j].kind = "audio")
         => clipSeg[result.arrays[i].seg] < clipSeg[result.arrays[j].seg]

\* C2 witness: three clips, the second of them made by another backend than
\* the first, were assembled.
C2_Witness ==
  /\ pc = "done"
  /\ Len(audio_segments) = 3
  /\ Cardinality({k \in 1..Len(result.arrays) : result.arrays[k].kind = "audio"}) = 3
  /\ \E c, d \in 1..Len(calls) :
       /\ calls[c].backend = "kokoro" /\ outcomes[c] = "ok" /\ gsLog[calls[c].gsno].seg = 2
       /\ calls[d].backend = "placeholder" /\ gsLog[calls[d].gsno].seg = 1

\* the backend calls of the n-th generate_simple call
CallsOf(n, backend) ==
  {c \in 1..Len(calls) : calls[c].gsno = n /\ calls[c].backend = backend}

KokoroFailedIn(n) ==
  \E c \in CallsOf(n, "kokoro") : outcomes[c] = "failed"

MacFailedIn(n) ==
  \E c \in CallsOf(n, "mac") : outcomes[c] = "failed"

C4_NothingAfterCancel ==
  [][cancelObserved' =>
       /\ Len(calls') = Len(calls)
       /\ Len(audio_segments') = Len(audio_segments)]_vars

\* C4 witness: a chapter generation was cancelled after its first clip, with
\* segments left that were never dispatched.
C4_Witness ==
  /\ pc = "cancelled"
  /\ cancelObserved
  /\ Len(audio_segments) = 1
  /\ idx < Len(segments)

\* the characters of a text that are neither whitespace, NUL nor U+FFFD
Letters(text) == SelectSeq(text, LAMBDA c : c = "a")

\* C5: every text a backend is called with is the text of the
\* generate_simple call cut to max_chunk_size, without NUL and U+FFFD, with
\* single spaces for whitespace runs, and not empty; a call whose text has
\* nothing left after cleaning raises ValueError and calls no backend.
C5_TextNormalizedBeforeDispatch ==
  /\ \A c \in 1..Len(calls) :
       LET t == calls[c].text
           given == gsLog[calls[c].gsno].text
           cut == SubSeq(given, 1, Min(Len(given), settings.max_chunk_size))
       IN  /\ t # <<>>
           /\ Len(t) <= settings.max_chunk_size
           /\ \A k \in 1..Len(t) : t[k] \in {"a", "sp"}
           /\ t[1] = "a" /\ t[Len(t)] = "a"
           /\ \A k \in 1..(Len(t) - 1) : ~(t[k] = "sp" /\ t[k + 1] = "sp")
           /\ Letters(t) = Letters(cut)
           /\ \A k \in 1..(Len(t) - 1) :
                (t[k] = "sp") =>
                  \E j \in 1..Len(cut) :
                    /\ IsSpace(cut[j])
                    /\ Len(Letters(SubSeq(cut, 1, j))) = Len(Letters(SubSeq(t, 1, k)))
  /\ \A n \in 1..Len(gsLog) :
       (~HasContent(gsLog[n].text) /\ (n < Len(gsLog) \/ gs.pc \notin {"enter"}))
         => /\ \A c \in 1..Len(calls) : calls[c].gsno # n
            /\ (n = Len(gsLog) /\ gs.pc # "none")
                 => (gs.pc = "raised" /\ gs.exc = "ValueError")

\* C5 witness: a text longer than max_chunk_size, with a tab and a NUL, was
\* cut and cleaned, and a backend was called with what was left.
C5_Witness ==
  \E c \in 1..Len(calls) :
    /\ gsLog[calls[c].gsno].text = <<"a", "tab", "nul", "a">>
    /\ settings.max_chunk_size = 3
    /\ calls[c].text = <<"a">>

(***************************************************************************)
(* More claims about concatenate_audio, checked under SpecConcat.          *)
(***************************************************************************)
\* the number of 16-bit samples after the 44-byte header of a buffer
SampleCount(clip) == (Len(clip) - 44) \div 2

\* a mono 16-bit integer PCM buffer of sample rate R: the canonical header
\* and a whole number of samples
IsMono16(clip, R) ==
  /\ Len(clip) >= 44
  /\ (Len(clip) - 44) % 2 = 0
  /\ SubSeq(clip, 1, 44) = PcmHeader(R, SampleCount(clip))

RECURSIVE TotalSamples(_)
TotalSamples(clips) ==
  IF clips = <<>> THEN 0 ELSE SampleCount(Head(clips)) + TotalSamples(Tail(clips))

\* the sample rates of the buffers of the model
ClipRates == {10, 20}

\* the output for N clips of rate R by the length law: the header, then
\* n1 + ... + nN + (N - 1) * floor(R * pause_ms / 1000) samples
ObeysLengthLaw(R) ==
  LET samples == TotalSamples(catIn)
                   + (Len(catIn) - 1) * ((R * pause_ms) \div 1000)
  IN  /\ ~catOut[1].raised
      /\ Len(catOut[1].value) = 44 + 2 * samples
      /\ SubSeq(catOut[1].value, 1, 44) = PcmHeader(R, samples)

HeaderEncoding(header) ==
  [format |-> SubSeq(header, 21, 22),
   rate |-> SubSeq(header, 25, 28),
   bits |-> SubSeq(header, 35, 36)]

\* C12: the header written for two or more buffers carries the sample rate,
\* bit depth and numeric encoding (integer PCM or floating point) of the
\* header of the first buffer.
C12_HeaderMirrorsFirst ==
  (/\ catOut # <<>>
   /\ Len(catIn) >= 2
   /\ Len(catIn[1]) >= 44
   /\ ~catOut[1].raised)
    => HeaderEncoding(SubSeq(catOut[1].value, 1, 44))
         = HeaderEncoding(SubSeq(catIn[1], 1, 44))

\* the sample rate field of the header of a buffer, line 367
RateField(clip) == PySlice(clip, 24, 28)

\* C22: in concatenate_audio a buffer whose header sample rate differs from
\* the sample rate of the first buffer contributes no samples to the output:
\* none of the joined arrays comes from it.
C22_RateMismatchDropped ==
  (catOut # <<>> /\ Len(catIn) >= 2 /\ ~catOut[1].raised) =>
    \A k \in 2..Len(catIn) :
      (Len(catIn[k]) >= 44 /\ Len(catIn[1]) >= 44
         /\ RateField(catIn[k]) # RateField(catIn[1]))
        => \A j \in 1..Len(catOut[1].arrays) :
             ~(catOut[1].arrays[j].kind = "audio" /\ catOut[1].arrays[j].seg = k)

(***************************************************************************)
(* Segmenting one text.                                                    *)
(***************************************************************************)
InitSegmenter ==
  /\ segText \in SegTexts(MaxParts)
  /\ char_voice_map \in SegMaps
  /\ segOut = <<>>
  /\ WavIdle
  /\ CatIdle
  /\ PipeIdle
  /\ UpIdle

\* one call of _detect_dialogue_with_speakers
Detect ==
  /\ segOut = <<>>
  /\ segOut' = <<DetectDialogueWithSpeakers(segText, char_voice_map)>>
  /\ UNCHANGED <<segText, char_voice_map>>
  /\ UNCHANGED <<wavVars, catVars, pipeVars, upVars>>

NextSegmenter == Detect

SpecSegmenter == InitSegmenter /\ [][NextSegmenter]_vars

(***************************************************************************)
(* Claims about _detect_dialogue_with_speakers, checked under              *)
(* SpecSegmenter.                                                          *)
(***************************************************************************)
\* the texts of the segments, one after the other
RECURSIVE JoinTexts(_)
JoinTexts(segs) ==
  IF segs = <<>> THEN <<>> ELSE Head(segs).text \o JoinTexts(Tail(segs))

\* a text without its whitespace
WithoutSpaces(t) == SelectSeq(t, LAMBDA c : ~IsSpace(c))

\* C13: segmentation is a lossless partition: the texts of the returned
\* segments, concatenated in order, are the original text except for
\* whitespace that was dropped.
C13_LosslessPartition ==
  segOut # <<>> => WithoutSpaces(JoinTexts(segOut[1])) = WithoutSpaces(segText)

\* the dialogue segments among the segments
DialogueSegments(segs) == SelectSeq(segs, LAMBDA sg : sg.type = "dialogue")

\* C14: every returned segment has a speaker that is a key of the supplied
\* map or the literal "Narrator"; a matched name that is not a key is
\* replaced by "Narrator" (and one that is a key is kept).
C14_SpeakerIsKeyOrNarrator ==
  segOut # <<>> =>
    /\ \A k \in 1..Len(segOut[1]) :
         segOut[1][k].speaker \in char_voice_map \cup {NarratorName}
    /\ LET ms == AllMatches(segText)
           ds == DialogueSegments(segOut[1])
       IN  /\ Len(ds) = Len(ms)
           /\ \A k \in 1..Len(ms) :
                ds[k].speaker = IF ms[k].speaker \in char_voice_map
                                THEN ms[k].speaker ELSE NarratorName

\* C14 witness: of `"x" Al said "x" Bl said` with only Al a key, the span of
\* Al is Al's and the span of Bl, who is no key, the narrator's.
C14_Witness ==
  /\ segOut # <<>>
  /\ char_voice_map = {NameAl}
  /\ segText = <<"q", "l", "q">> \o NameAl \o <<"sp", "V">>
                 \o <<"q", "l", "q">> \o NameBl \o <<"sp", "V">>
  /\ segOut[1] = <<[speaker |-> NameAl, text |-> <<"l">>, type |-> "dialogue"],
                   [speaker |-> NarratorName, text |-> <<"l">>, type |-> "dialogue"]>>

\* `Al said, "x'x"`: a name, a verb, a comma and a quoted span with an
\* apostrophe in it
ApostropheSpanAfterAttribution ==
  NameAl \o <<"sp", "V", "c">> \o <<"q", "l", "ap", "l", "q">>

\* C15: a quoted span that contains an apostrophe and is preceded by
\* `Name verb,` is emitted whole as one dialogue segment of that Name (as
\* "I'm leaving." of Alice in the example).
C15_ApostropheSpanWhole ==
  (/\ segOut # <<>>
   /\ NameAl \in char_voice_map
   /\ Len(segText) >= Len(ApostropheSpanAfterAttribution)
   /\ SubSeq(segText, 1, Len(ApostropheSpanAfterAttribution))
        = ApostropheSpanAfterAttribution)
    => segOut[1][1] = [speaker |-> NameAl, text |-> <<"l", "ap", "l">>,
                       type |-> "dialogue"]

(***************************************************************************)
(* One upload: POST /api/books/upload (upload_book, src/main.py), from      *)
(* character detection to the rows of the characters table, then the voice *)
(* overrides of the book (update_character_voice).                         *)
(***************************************************************************)
InitUpload ==
  /\ upPc = "detect"
  /\ upReply = NoReply
  /\ upSpeakers = <<>>
  /\ upCharacters = <<>>
  /\ upAssignments = <<>>
  /\ upRows = <<>>
  /\ upOverride = NoOverride
  /\ WavIdle
  /\ CatIdle
  /\ PipeIdle
  /\ SegIdle

\* detect, lines 68-70: the language model answered and its result is kept
LlmResultAccepted ==
  /\ upPc = "detect"
  /\ \E reply \in LlmReplies :
       /\ LlmResultKept(DetectWithLlm(reply))
       /\ upReply' = reply
       /\ upCharacters' = DetectWithLlm(reply)
  /\ upPc' = "detected"
  /\ UNCHANGED <<upSpeakers, upAssignments, upRows, upOverride>>
  /\ UNCHANGED <<wavVars, catVars, pipeVars, segVars>>

\* detect, lines 68-69: the language model failed or named too few
LlmResultDropped ==
  /\ upPc = "detect"
  /\ \E reply \in LlmReplies :
       /\ ~LlmResultKept(DetectWithLlm(reply))
       /\ upReply' = reply
  /\ upPc' = "fallback"
  /\ UNCHANGED <<upSpeakers, upCharacters, upAssignments, upRows, upOverride>>
  /\ UNCHANGED <<wavVars, catVars, pipeVars, segVars>>

\* detect, lines 73-74: the heuristics
HeuristicFallback ==
  /\ upPc = "fallback"
  /\ \E speakers \in SpeakerCounters :
       /\ upSpeakers' = speakers
       /\ upCharacters' = DetectWithHeuristics(speakers)
  /\ upPc' = "detected"
  /\ UNCHANGED <<upReply, upAssignments, upRows, upOverride>>
  /\ UNCHANGED <<wavVars, catVars, pipeVars, segVars>>

\* upload_book, line 259
AssignVoicesStep ==
  /\ upPc = "detected"
  /\ \E minor_voices \in MinorVoiceLists(MainPhase(upCharacters).used_voices) :
       upAssignments' = AssignVoices(upCharacters, minor_voices)
  /\ upPc' = "assigned"
  /\ UNCHANGED <<upReply, upSpeakers, upCharacters, upRows, upOverride>>
  /\ UNCHANGED <<wavVars, catVars, pipeVars, segVars>>

\* upload_book, lines 275-283
InsertCharacters ==
  /\ upPc = "assigned"
  /\ upRows' = CharacterRows(upCharacters, upAssignments)
  /\ upPc' = "done"
  /\ UNCHANGED <<upReply, upSpeakers, upCharacters, upAssignments, upOverride>>
  /\ UNCHANGED <<wavVars, catVars, pipeVars, segVars>>

\* PUT /api/books/{book_id}/characters/{char_name}/voice, src/main.py lines
\* 519-542, on the book of the upload
UpdateCharacterVoiceStep ==
  /\ upPc = "done"
  /\ \E char_name \in OverrideNames, voice_id \in OverrideVoices :
       LET r == UpdateCharacterVoice(upRows, char_name, voice_id)
       IN  /\ upRows' = r.rows
           /\ upOverride' = [voice_id |-> voice_id, status |-> r.status]
  /\ UNCHANGED <<upPc, upReply, upSpeakers, upCharacters, upAssignments>>
  /\ UNCHANGED <<wavVars, catVars, pipeVars, segVars>>

NextUpload ==
  \/ LlmResultAccepted
  \/ LlmResultDropped
  \/ HeuristicFallback
  \/ AssignVoicesStep
  \/ InsertCharacters
  \/ UpdateCharacterVoiceStep

SpecUpload == InitUpload /\ [][NextUpload]_vars

(***************************************************************************)
(* Claims about voice assignment, character detection and upload_book,     *)
(* checked under SpecUpload.                                               *)
(***************************************************************************)
\* assign_voices has returned
Assigned == upPc \in {"assigned", "done"}

\* the number of entries of a dict that have the key
CountOfKey(d, key) == Cardinality({k \in 1..Len(d) : d[k].name = key})

\* C16: voice assignment is a total mapping: every input character name, of
\* any role, appears exactly once in the returned assignments, with a
\* voice_id that is an id of the Voice Catalog.
C16_AssignmentTotal ==
  Assigned =>
    \A k \in 1..Len(upCharacters) :
      /\ CountOfKey(upAssignments, upCharacters[k].name) = 1
      /\ Lookup(upAssignments, upCharacters[k].name).voice_id \in CatalogIds

\* the main characters, then the supporting ones: the order in which
\* assign_voices gives the principal characters their voices
Principals == OfRole(upCharacters, "main") \o OfRole(upCharacters, "supporting")

\* the voice the result gives to a principal character
VoiceOfPrincipal(k) == Lookup(upAssignments, Principals[k].name).voice_id

\* the ids of the voices of the gender: the male ones for male, the female
\* ones for female, all of them for unknown
PoolIds(gender) ==
  {AVAILABLE_VOICES[k].id :
     k \in {j \in 1..Len(AVAILABLE_VOICES) :
              gender \in {AVAILABLE_VOICES[j].gender, "unknown"}}}

\* C17: no two characters of role main or supporting share a voice_id
\* unless every voice of the gender-appropriate pool was already in use
\* when the later of the two was assigned.
C17_PrincipalsDistinct ==
  Assigned =>
    \A i, j \in 1..Len(Principals) :
      (i < j /\ VoiceOfPrincipal(i) = VoiceOfPrincipal(j))
        => \A v \in PoolIds(Principals[j].gender) :
             \E k \in 1..(j - 1) : VoiceOfPrincipal(k) = v

\* C18: after character detection, voice assignment and persistence, the
\* record of the narrator that the detector injects has the default
\* narrator voice of the voice assigner.
C18_NarratorVoiceFixed ==
  upPc = "done" =>
    \A k \in 1..Len(upRows) :
      upRows[k].name = NarratorEntry.name => upRows[k].voice_id = narrator_voice

\* detect has returned
Detected == upPc \in {"detected", "assigned", "done"}

\* C19: whatever path detect takes, the mapping it returns has a "narrator"
\* entry with role "system".
C19_NarratorAlwaysInjected ==
  Detected =>
    /\ CountOfKey(upCharacters, "narrator") = 1
    /\ Lookup(upCharacters, "narrator").role = "system"

\* C19 witness: the language model named Alice and a main character called
\* "narrator"; its result was kept, with the narrator a system character.
C19_Witness ==
  /\ upPc = "detected"
  /\ upReply.kind = "characters"
  /\ upReply.characters = <<[name |-> "narrator", gender |-> "male", role |-> "main"],
                            [name |-> "Alice", gender |-> "female", role |-> "main"]>>
  /\ upCharacters = <<NarratorEntry,
                      [name |-> "Alice", gender |-> "female", role |-> "main"]>>

(***************************************************************************)
(* A claim about the narrator voice of generate, checked under             *)
(* SpecPipeline.                                                           *)
(***************************************************************************)
\* C20: the voice used for narration segments and for unknown speakers
\* (segments of speaker "Narrator") is the voice_id of the record whose
\* is_narrator flag is true, whatever record or assignment is named
\* "Narrator".
C20_NarratorFlagAuthoritative ==
  (/\ pc = "L93"
   /\ gs.site = "L93"
   /\ segments[idx].speaker = "Narrator"
   /\ \E k \in 1..Len(request.characters) : request.characters[k].is_narrator)
    => \E k \in 1..Len(request.characters) :
         /\ request.characters[k].is_narrator
         /\ gs.voice_id = request.characters[k].voice_id

\* C23: no segment returned by _detect_dialogue_with_speakers has a text
\* that is empty after trimming, for every input text (the empty text,
\* whitespace-only text and text whose quoted span holds only whitespace
\* included).
C23_NoBlankSegment ==
  segOut # <<>> =>
    \A k \in 1..Len(segOut[1]) : Strip(segOut[1][k].text) # <<>>

\* the ids of a list of voices
IdsOf(voices) == {voices[k].id : k \in 1..Len(voices)}

\* C24: in assign_voices the candidate voice pool of a main character is
\* the voices of the character's gender when the gender is male or female,
\* and the full Voice Catalog when the gender is unknown.
C24_CandidatePoolByGender ==
  Assigned =>
    \A k \in 1..Len(upCharacters) :
      upCharacters[k].role = "main" =>
        IdsOf(Candidates(upCharacters[k].gender))
          = (IF upCharacters[k].gender \in {"male", "female"}
             THEN IdsOf(voices_by_gender(upCharacters[k].gender))
             ELSE CatalogIds)

\* C25: detect returns the result of the language model only when that
\* result holds at least 2 detected characters, the injected narrator not
\* counted; with fewer, as with an unreachable model or a response that is
\* no JSON, the characters are those of the heuristic fallback.
C25_LlmResultNeedsTwoCharacters ==
  (Detected /\ upReply # NoReply) =>
    LET detected == IF upReply.kind = "characters"
                    THEN SelectSeq(upReply.characters,
                                   LAMBDA c : c.name # NarratorEntry.name)
                    ELSE <<>>
    IN  IF Len(detected) >= 2
        THEN upSpeakers = <<>> /\ upCharacters = DetectWithLlm(upReply)
        ELSE upCharacters = DetectWithHeuristics(upSpeakers)

\* detect took the heuristic fallback
FellBack == Detected /\ ~LlmResultKept(DetectWithLlm(upReply))

\* the counted name is among the characters detect returned
Retained(speaker) ==
  \E k \in 1..Len(upCharacters) : upCharacters[k].name = speaker.name

\* C26: in the heuristic fallback a candidate with total attribution count
\* c gets role main when c >= 10, supporting when 3 <= c < 10 and minor
\* otherwise, and at most the 15 candidates with the highest counts are
\* retained (plus the narrator).
C26_RolesByCountAndCap ==
  FellBack =>
    /\ Len(upCharacters) = Min(Len(upSpeakers), 15) + 1
    /\ upCharacters[Len(upCharacters)] = NarratorEntry
    /\ \A k \in 1..(Len(upCharacters) - 1) :
         \E j \in 1..Len(upSpeakers) :
           /\ upSpeakers[j].name = upCharacters[k].name
           /\ upCharacters[k].role =
                (IF upSpeakers[j].count >= 10 THEN "main"
                 ELSE IF upSpeakers[j].count >= 3 THEN "supporting"
                 ELSE "minor")
    /\ \A i, j \in 1..Len(upSpeakers) :
         (Retained(upSpeakers[i]) /\ ~Retained(upSpeakers[j]))
           => upSpeakers[i].count >= upSpeakers[j].count

\* C26 witness: of 16 counted names the third was counted once and the
\* others three times; the fallback kept the 15 supporting characters and
\* the narrator, and dropped the third name.
C26_Witness ==
  /\ FellBack
  /\ Len(upSpeakers) = 16
  /\ upSpeakers[3].count = 1
  /\ Len(upCharacters) = 16
  /\ ~Retained(upSpeakers[3])
  /\ \A k \in 1..15 : upCharacters[k].role = "supporting"

\* C27: no portion of the source text is emitted in more than one segment:
\* the quoted spans the segment walk emits as dialogue segments, one for
\* each match, are pairwise disjoint, and the end offset used for the next
\* narration gap never moves backwards.
C27_NoSpanEmittedTwice ==
  segOut # <<>> =>
    LET ms == AllMatches(segText)
    IN  /\ Len(DialogueSegments(segOut[1])) = Len(ms)
        /\ \A i, j \in 1..Len(ms) :
             i < j => (ms[i].to <= ms[j].from \/ ms[j].to <= ms[i].from)
        /\ \A k \in 1..(Len(ms) - 1) : ms[k].end <= ms[k + 1].end

\* the text of the n-th generate_simple call is not empty after cleaning
CleanedNonEmpty(n) ==
  ~IsRejected(CleanText(gsLog[n].text, settings.max_chunk_size))

\* the n-th generate_simple call is the current one and has raised
RaisedIn(n) == n = Len(gsLog) /\ gs.pc = "raised"

\* the order of the backends in the n-th generate_simple call: Kokoro only
\* when it is the configured backend, macOS speech only after Kokoro failed
\* or was not configured, the placeholder only after macOS speech failed,
\* each backend at most once
BackendOrderIn(n) ==
  /\ CallsOf(n, "kokoro") # {} => settings.tts_backend = "kokoro"
  /\ \A m \in CallsOf(n, "mac") :
       \/ settings.tts_backend # "kokoro"
       \/ \E k \in CallsOf(n, "kokoro") : k < m /\ outcomes[k] = "failed"
  /\ \A p \in CallsOf(n, "placeholder") :
       \E m \in CallsOf(n, "mac") : m < p /\ outcomes[m] = "failed"
  /\ \A b \in {"kokoro", "mac", "placeholder"} : Cardinality(CallsOf(n, b)) <= 1

\* C28 as stated: for a text whose cleaned form is not empty generate_simple
\* never raises, whatever backends fail, and it calls the backends in
\* order: Kokoro only when configured, macOS speech only after Kokoro failed
\* or was not configured, the placeholder only after macOS speech failed,
\* each at most once per call.
C28_NeverRaises ==
  \A n \in 1..Len(gsLog) :
    CleanedNonEmpty(n) => (~RaisedIn(n) /\ BackendOrderIn(n))

\* C28 amended: for a text whose cleaned form is not empty generate_simple
\* raises no Exception, whatever backends fail: it raises only the
\* CancelledError of a cancellation delivered during the Kokoro request,
\* after which no other backend is called; the backends are called in
\* order, each at most once per call.
C28_RaisesOnlyCancelledError ==
  \A n \in 1..Len(gsLog) :
    CleanedNonEmpty(n) =>
      /\ RaisedIn(n) =>
           /\ gs.exc = "CancelledError"
           /\ cancelObserved
           /\ \E k \in CallsOf(n, "kokoro") : outcomes[k] = "cancelled"
           /\ CallsOf(n, "mac") = {} /\ CallsOf(n, "placeholder") = {}
      /\ BackendOrderIn(n)

\* C28 witness: with Kokoro configured, Kokoro failed, macOS speech failed
\* and generate_simple returned the placeholder tone, each backend called
\* once.
C28_Witness ==
  /\ gsLog # <<>>
  /\ settings.tts_backend = "kokoro"
  /\ CleanedNonEmpty(Len(gsLog))
  /\ gs.pc = "returned"
  /\ \A b \in {"kokoro", "mac", "placeholder"} :
       Cardinality(CallsOf(Len(gsLog), b)) = 1
  /\ gs.value = PlaceholderAudio(gs.text, settings.audio_sample_rate)

\* the positions at which the chunk walk of `w` reads a chunk header, from
\* pos on, for at most `fuel` iterations; it stops at a header that is not
\* fully inside the buffer
RECURSIVE ChunkStarts(_, _, _)
ChunkStarts(w, pos, fuel) ==
  IF fuel = 0 \/ ~WalkContinues(w, pos) THEN <<>>
  ELSE IF pos + 8 > Len(w) THEN <<pos>>
  ELSE <<pos>> \o ChunkStarts(w, NextPos(pos, UnpackU32(PySlice(w, pos + 4, pos + 8))),
                              fuel - 1)

\* C29: the chunk walk of _clean_wav terminates for every buffer: the parse
\* position grows by at least 8 bytes per iteration and no chunk header is
\* read that is not fully inside the buffer, whatever sizes the chunks
\* declare (0, odd, larger than the bytes that remain).
C29_WalkTerminates ==
  \A k \in 1..Len(wavOut) :
    LET w == SanitizeInput(k)
        starts == ChunkStarts(w, 12, Len(w) + 1)
    IN  (Len(w) >= 44 /\ HasMagic(w)) =>
          /\ ~wavOut[k].raised
          /\ Len(starts) <= Len(w)
          /\ \A i \in 1..Len(starts) : starts[i] + 8 <= Len(w)
          /\ \A i \in 1..(Len(starts) - 1) : starts[i + 1] >= starts[i] + 8
          /\ WalkChunks(w, 12, NoChunk, NoChunk, 0).steps = Len(starts)

\* C29 witness: a buffer of a 17-byte fmt chunk, an empty FLLR chunk and a
\* data chunk that announces three bytes but holds two: the walk read the
\* headers at 12, 38 and 46 and stopped.
C29_Witness ==
  /\ Len(wavOut) >= 1
  /\ wavRecipe.magic = "ok"
  /\ wavRecipe.cut = 2
  /\ Len(wavRecipe.chunks) = 3
  /\ Len(wavRecipe.chunks[1].payload) = 17
  /\ wavRecipe.chunks[2] = [id |-> FLLR, payload |-> <<>>]
  /\ wavRecipe.chunks[3] = [id |-> DATA, payload |-> Ramp(3)]
  /\ ChunkStarts(wavIn, 12, Len(wavIn) + 1) = <<12, 38, 46>>
  /\ WalkChunks(wavIn, 12, NoChunk, NoChunk, 0).pos = 58
  /\ ~wavOut[1].raised

\* C30: after any sequence of uploads and voice overrides every persisted
\* character record has a voice_id that is an id of the Voice Catalog, and
\* an override with a voice_id outside the catalog is answered with an
\* error and leaves the records unchanged.
C30_PersistedVoicesInCatalog ==
  /\ [](\A k \in 1..Len(upRows) : upRows[k].voice_id \in CatalogIds)
  /\ []((upOverride # NoOverride /\ upOverride.voice_id \notin CatalogIds)
          => upOverride.status = 400)
  /\ [][(upPc = "done" /\ upOverride'.voice_id \notin CatalogIds)
          => upRows' = upRows]_vars

====
